---- MODULE Spec2Model ----
(***************************************************************************)
(* Model of the banking example: models.py (User, Account, Transaction),   *)
(* services.py (Database, NotificationService, BankingService) and the     *)
(* seed data of main.py.                                                   *)
(*                                                                         *)
(* Amounts and balances are Python floats in the source; they are modelled *)
(* as integers (every value used is exactly representable, so + and - are  *)
(* exact).  A Transaction object is identified by its position in txs, the *)
(* sequence of all Transaction objects in creation order; tx_id is a field *)
(* of the object, as in the source.                                        *)
(***************************************************************************)
EXTENDS Integers, Sequences, FiniteSets, TLC

\* ---------------------------------------------------------------- bounds
MaxTx == 2          \* transfer() calls in one behaviour
MaxProc == 1        \* direct Transaction.process() calls by the caller
MaxInit == 1        \* largest initial balance of a seeded account
MaxAmount == 2      \* largest amount passed to an operation
MaxBal == 2         \* deposits are offered only while balance stays <= MaxBal
MaxUsers == 3       \* User objects in one behaviour, the two seeded ones included
MaxAccts == 3       \* Account objects, the two seeded ones included
MaxSaves == 3       \* save_user calls, the two of seed_data included

\* ------------------------------------------------------ program constants
None == 0                       \* Python None (dict.get miss)
InitTxId == 1                   \* BankingService._next_tx_id at construction

STATUS_PENDING == "PENDING"
STATUS_COMPLETED == "COMPLETED"
STATUS_FAILED == "FAILED"
Terminal == {STATUS_COMPLETED, STATUS_FAILED}

\* seed_data: users 1 (Alice) and 2 (Bob); accounts saved in the Database
Users == {1, 2}
Accounts == {101, 201}
owner == (101 :> 1) @@ (201 :> 2)
\* ids passed to transfer(): the saved accounts and 999, an id never saved
AccountIds == Accounts \cup {999}
Amounts == (0 - 1) .. MaxAmount

VARIABLES
    balance,          \* Account.balance of every saved account
    history,          \* Account._transactions: sequence of Transaction objects
    txs,              \* every Transaction object built, in creation order
    db_transactions,  \* Database._store['transactions']: tx_id -> object
    next_tx_id,       \* BankingService._next_tx_id
    notifications,    \* NotificationService.notify calls, in order
    pc,               \* position of the running transfer() call, or "idle"
    frame,            \* locals of the running transfer() call
    result,           \* what the caller got from the last finished call
    nproc,            \* number of direct process() calls made so far
    users,            \* every User object built, in creation order
    acct_objs,        \* every Account object built, in creation order
    db_users,         \* Database._store['users']: user_id -> User object
    saves,            \* the User objects passed to save_user, in call order
    uresult,          \* what the caller got from the last user/account call
    tpc,              \* per thread: position of its transfer() call
    tframe,           \* per thread: locals of its transfer() call
    tresult           \* per thread: what its transfer() call gave the caller

bank_vars == <<balance, history, txs, db_transactions, next_tx_id, notifications,
               pc, frame, result, nproc>>
user_vars == <<users, acct_objs, db_users, saves, uresult>>
conc_vars == <<tpc, tframe, tresult>>
vars == <<bank_vars, user_vars, conc_vars>>

NoFrame == [source |-> None, dest |-> None, amount |-> 0, tx |-> 0, success |-> FALSE]
Result(op, kind, tx) == [op |-> op, kind |-> kind, tx |-> tx]
Threads == {1, 2}
\* locals of a transfer() call in a thread; tmp is the value of
\* self._next_tx_id loaded by the += of line 64
NoTFrame == [source |-> None, dest |-> None, amount |-> 0, tx |-> 0,
             success |-> FALSE, tmp |-> 0]
UResult(op, arg, user, list) == [op |-> op, arg |-> arg, user |-> user, list |-> list]

\* ------------------------------------------------------------- models.py
\* User.__init__
User(user_id) == [user_id |-> user_id, accounts |-> <<>>]

\* User.add_account: append to self.accounts
add_account_Front(accounts, a) == <<a>> \o accounts
add_account(accounts, a) == Append(accounts, a)

\* Account.__init__: the identity and owner fields of the new object (the
\* balance of a saved account is the variable balance)
Account(account_id, u) == [account_id |-> account_id, owner |-> u]

\* Account.deposit: ValueError unless amount > 0
deposit_raises(amount) == amount <= 0
deposit_Lost(bal, amount) == bal
deposit(bal, amount) == bal + amount

\* Account.withdraw: ValueError unless 0 < amount <= balance
withdraw_raises_NoFundsCheck(bal, amount) == amount <= 0
withdraw_raises_AtBalance(bal, amount) == amount <= 0 \/ amount >= bal
withdraw_raises(bal, amount) == amount <= 0 \/ amount > bal
withdraw_Double(bal, amount) == bal - 2 * amount
withdraw(bal, amount) == bal - amount

\* Account.add_transaction
add_transaction_Prepend(hist, acc, t) == [hist EXCEPT ![acc] = <<t>> \o @]
add_transaction(hist, acc, t) == [hist EXCEPT ![acc] = Append(@, t)]

\* Transaction.__init__
Transaction(tx_id, source, destination, amount) ==
    [tx_id |-> tx_id, source |-> source, destination |-> destination,
     amount |-> amount, status |-> STATUS_PENDING]

\* Transaction.validate raises AttributeError when source is None and the
\* first conjunct (amount > 0) does not short-circuit the attribute access
validate_raises(tx) == tx.amount > 0 /\ tx.source = None
validate_Strict(tx, bal) == tx.amount > 0 /\ bal[tx.source] > tx.amount
validate(tx, bal) == tx.amount > 0 /\ bal[tx.source] >= tx.amount

ProcOut(ret, status, bal, hist) ==
    [ret |-> ret, status |-> status, balance |-> bal, history |-> hist]

\* Transaction.process on object t (a record of txs) in the given balances
\* and histories.  ret is "True", "False", or "raise" when validate()'s
\* AttributeError leaves process() (validate is called outside the try).
process_KeepsPending(tx, t, bal, hist) ==
    IF validate_raises(tx) THEN ProcOut("raise", tx.status, bal, hist)
    ELSE IF ~validate(tx, bal) THEN ProcOut("False", tx.status, bal, hist)
    ELSE IF withdraw_raises(bal[tx.source], tx.amount)
         THEN ProcOut("False", STATUS_FAILED, bal, hist)
    ELSE LET bal1 == [bal EXCEPT ![tx.source] = withdraw(@, tx.amount)] IN
         IF tx.destination = None \/ deposit_raises(tx.amount)
         THEN ProcOut("False", STATUS_FAILED, bal1, hist)
         ELSE LET bal2 == [bal1 EXCEPT ![tx.destination] = deposit(@, tx.amount)]
                  hist1 == add_transaction(hist, tx.source, t)
                  hist2 == add_transaction(hist1, tx.destination, t)
              IN ProcOut("True", STATUS_COMPLETED, bal2, hist2)

process(tx, t, bal, hist) ==
    IF validate_raises(tx) THEN ProcOut("raise", tx.status, bal, hist)
    ELSE IF ~validate(tx, bal) THEN ProcOut("False", STATUS_FAILED, bal, hist)
    ELSE IF withdraw_raises(bal[tx.source], tx.amount)
         THEN ProcOut("False", STATUS_FAILED, bal, hist)
    ELSE LET bal1 == [bal EXCEPT ![tx.source] = withdraw(@, tx.amount)] IN
         IF tx.destination = None \/ deposit_raises(tx.amount)
         THEN ProcOut("False", STATUS_FAILED, bal1, hist)
         ELSE LET bal2 == [bal1 EXCEPT ![tx.destination] = deposit(@, tx.amount)]
                  hist1 == add_transaction(hist, tx.source, t)
                  hist2 == add_transaction(hist1, tx.destination, t)
              IN ProcOut("True", STATUS_COMPLETED, bal2, hist2)

\* ----------------------------------------------------------- services.py
\* self.db._store['accounts'].get(id)
get_account(id) == IF id \in Accounts THEN id ELSE None

\* Database.save_transaction: upsert by tx_id
save_transaction_OnlyCompleted(db, tx_id, t) ==
    IF txs[t].status = STATUS_COMPLETED
    THEN [k \in DOMAIN db \cup {tx_id} |-> IF k = tx_id THEN t ELSE db[k]]
    ELSE db
save_transaction_FirstKey(db, tx_id, t) ==
    [k \in DOMAIN db \cup {InitTxId} |-> IF k = InitTxId THEN t ELSE db[k]]
save_transaction(db, tx_id, t) ==
    [k \in DOMAIN db \cup {tx_id} |-> IF k = tx_id THEN t ELSE db[k]]

\* Database.save_user: upsert by user_id
save_user_KeepFirst(db, user_id, u) ==
    [k \in DOMAIN db \cup {user_id} |-> IF k \in DOMAIN db THEN db[k] ELSE u]
save_user(db, user_id, u) ==
    [k \in DOMAIN db \cup {user_id} |-> IF k = user_id THEN u ELSE db[k]]

\* Database.get_user: dict.get, None on a miss
get_user(db, user_id) == IF user_id \in DOMAIN db THEN db[user_id] ELSE None

\* self._next_tx_id += 1
next_id_Stuck(n) == n
next_id(n) == n + 1

\* NotificationService.notify(user, message)
notify_Dropped(log, user, msg, t) == log
notify(log, user, msg, t) == Append(log, [to |-> user, msg |-> msg, tx |-> t])

Init ==
    /\ balance \in [Accounts -> 0 .. MaxInit]
    /\ history = [a \in Accounts |-> <<>>]
    /\ txs = <<>>
    /\ db_transactions = <<>>
    /\ next_tx_id = InitTxId
    /\ notifications = <<>>
    /\ pc = "idle"
    /\ frame = NoFrame
    /\ result = Result("none", "none", 0)
    /\ nproc = 0
    /\ users = << [user_id |-> 1, accounts |-> <<1>>],
                  [user_id |-> 2, accounts |-> <<2>>] >>
    /\ acct_objs = << Account(101, 1), Account(201, 2) >>
    /\ db_users = (1 :> 1) @@ (2 :> 2)
    /\ saves = <<1, 2>>
    /\ uresult = UResult("none", 0, None, <<>>)
    /\ tpc = [th \in Threads |-> "idle"]
    /\ tframe = [th \in Threads |-> NoTFrame]
    /\ tresult = [th \in Threads |-> Result("none", "none", 0)]

\* transfer(), lines 61-62: resolve both accounts
TransferCall(s, d, a) ==
    /\ pc = "idle"
    /\ next_tx_id <= MaxTx
    /\ frame' = [NoFrame EXCEPT !.source = get_account(s), !.dest = get_account(d),
                                !.amount = a]
    /\ pc' = "construct"
    /\ UNCHANGED <<balance, history, txs, db_transactions, next_tx_id,
                   notifications, result, nproc>>

\* transfer(), line 63: tx = Transaction(self._next_tx_id, source, dest, amount)
Construct ==
    /\ pc = "construct"
    /\ txs' = Append(txs, Transaction(next_tx_id, frame.source, frame.dest, frame.amount))
    /\ frame' = [frame EXCEPT !.tx = Len(txs) + 1]
    /\ pc' = "inc"
    /\ UNCHANGED <<balance, history, db_transactions, next_tx_id, notifications,
                   result, nproc>>

\* transfer(), line 64: self._next_tx_id += 1
Inc ==
    /\ pc = "inc"
    /\ next_tx_id' = next_id(next_tx_id)
    /\ pc' = "process"
    /\ UNCHANGED <<balance, history, txs, db_transactions, notifications, frame,
                   result, nproc>>

\* transfer(), line 65: success = tx.process(); an exception ends the call
Process ==
    /\ pc = "process"
    /\ LET t == frame.tx
           out == process(txs[t], t, balance, history)
       IN /\ balance' = out.balance
          /\ history' = out.history
          /\ txs' = [txs EXCEPT ![t].status = out.status]
          /\ IF out.ret = "raise"
             THEN /\ pc' = "idle"
                  /\ frame' = NoFrame
                  /\ result' = Result("transfer", "raised", 0)
             ELSE /\ pc' = "save"
                  /\ frame' = [frame EXCEPT !.success = (out.ret = "True")]
                  /\ UNCHANGED result
    /\ UNCHANGED <<db_transactions, next_tx_id, notifications, nproc>>

\* transfer(), line 66: self.db.save_transaction(tx)
Save ==
    /\ pc = "save"
    /\ db_transactions' = save_transaction(db_transactions, txs[frame.tx].tx_id, frame.tx)
    /\ pc' = "notify"
    /\ UNCHANGED <<balance, history, txs, next_tx_id, notifications, frame,
                   result, nproc>>

\* transfer(), lines 67-68 and 70-71: the first notify of either branch;
\* source.owner raises AttributeError when source is None
Notify ==
    /\ pc = "notify"
    /\ IF frame.success
       THEN /\ notifications' = notify(notifications, owner[frame.source], "succeeded", frame.tx)
            /\ pc' = "notify2"
            /\ UNCHANGED <<frame, result>>
       ELSE IF frame.source = None
       THEN /\ pc' = "idle"
            /\ frame' = NoFrame
            /\ result' = Result("transfer", "raised", 0)
            /\ UNCHANGED notifications
       ELSE /\ notifications' = notify(notifications, owner[frame.source], "failed", frame.tx)
            /\ pc' = "return"
            /\ UNCHANGED <<frame, result>>
    /\ UNCHANGED <<balance, history, txs, db_transactions, next_tx_id, nproc>>

\* transfer(), line 69: notify(dest.owner, 'Received ...')
Notify2 ==
    /\ pc = "notify2"
    /\ notifications' = notify(notifications, owner[frame.dest], "received", frame.tx)
    /\ pc' = "return"
    /\ UNCHANGED <<balance, history, txs, db_transactions, next_tx_id, frame,
                   result, nproc>>

\* transfer(), line 72: return tx
Return ==
    /\ pc = "return"
    /\ result' = Result("transfer", "returned", frame.tx)
    /\ pc' = "idle"
    /\ frame' = NoFrame
    /\ UNCHANGED <<balance, history, txs, db_transactions, next_tx_id,
                   notifications, nproc>>

\* The caller calls process() again on a Transaction it got from transfer()
\* or finds in the store.
Reprocess(t) ==
    /\ pc = "idle"
    /\ nproc < MaxProc
    /\ \E k \in DOMAIN db_transactions : db_transactions[k] = t
    /\ LET out == process(txs[t], t, balance, history)
       IN /\ balance' = out.balance
          /\ history' = out.history
          /\ txs' = [txs EXCEPT ![t].status = out.status]
          /\ result' = Result("process", out.ret, t)
    /\ nproc' = nproc + 1
    /\ UNCHANGED <<db_transactions, next_tx_id, notifications, pc, frame>>

\* The caller calls Account.deposit on a saved account
Deposit(acc, a) ==
    /\ pc = "idle"
    /\ IF deposit_raises(a)
       THEN /\ result' = Result("deposit", "raised", 0)
            /\ UNCHANGED balance
       ELSE /\ balance[acc] + a <= MaxBal
            /\ balance' = [balance EXCEPT ![acc] = deposit(@, a)]
            /\ result' = Result("deposit", "ok", 0)
    /\ UNCHANGED <<history, txs, db_transactions, next_tx_id, notifications,
                   pc, frame, nproc>>

\* The caller calls Account.withdraw on a saved account
Withdraw(acc, a) ==
    /\ pc = "idle"
    /\ IF withdraw_raises(balance[acc], a)
       THEN /\ result' = Result("withdraw", "raised", 0)
            /\ UNCHANGED balance
       ELSE /\ balance' = [balance EXCEPT ![acc] = withdraw(@, a)]
            /\ result' = Result("withdraw", "ok", 0)
    /\ UNCHANGED <<history, txs, db_transactions, next_tx_id, notifications,
                   pc, frame, nproc>>

\* The caller calls validate() on a Transaction it got from transfer() or
\* finds in the store; the answer (or the AttributeError) is all it changes.
Validate(t) ==
    /\ pc = "idle"
    /\ \E k \in DOMAIN db_transactions : db_transactions[k] = t
    /\ result' = Result("validate",
                         IF validate_raises(txs[t]) THEN "raise"
                         ELSE IF validate(txs[t], balance) THEN "True" ELSE "False",
                         t)
    /\ UNCHANGED <<balance, history, txs, db_transactions, next_tx_id,
                   notifications, pc, frame, nproc>>

Next ==
    /\ UNCHANGED <<user_vars, conc_vars>>
    /\ \/ \E s \in AccountIds, d \in AccountIds, a \in Amounts : TransferCall(s, d, a)
       \/ Construct
       \/ Inc
       \/ Process
       \/ Save
       \/ Notify
       \/ Notify2
       \/ Return
       \/ \E t \in 1 .. Len(txs) : Reprocess(t)
       \/ \E t \in 1 .. Len(txs) : Validate(t)
       \/ \E acc \in Accounts, a \in Amounts : Deposit(acc, a)
       \/ \E acc \in Accounts, a \in Amounts : Withdraw(acc, a)

Spec == Init /\ [][Next]_vars

\* ------------------------------------------- users, accounts and login
\* ids given to new User objects and to login(): 1 and 2 are seeded, 3 is not
UserIds == {1, 2, 3}
\* ids given to new Account objects
NewAccountIds == {102, 301}

\* the caller builds User(user_id, name)
NewUser(id) ==
    /\ Len(users) < MaxUsers
    /\ users' = Append(users, User(id))
    /\ uresult' = UResult("User", id, Len(users) + 1, <<>>)
    /\ UNCHANGED <<acct_objs, db_users, saves>>

\* the caller builds Account(account_id, owner, balance): __init__ adds the
\* new object to owner.accounts
NewAccount(id, u) ==
    /\ Len(acct_objs) < MaxAccts
    /\ acct_objs' = Append(acct_objs, Account(id, u))
    /\ users' = [users EXCEPT ![u].accounts = add_account(@, Len(acct_objs) + 1)]
    /\ uresult' = UResult("Account", id, u, <<>>)
    /\ UNCHANGED <<db_users, saves>>

\* db.save_user(user)
SaveUser(u) ==
    /\ Len(saves) < MaxSaves
    /\ db_users' = save_user(db_users, users[u].user_id, u)
    /\ saves' = Append(saves, u)
    /\ uresult' = UResult("save_user", users[u].user_id, u, <<>>)
    /\ UNCHANGED <<users, acct_objs>>

\* AuthService.login(user_id)
Login(id) ==
    /\ uresult' = UResult("login", id, get_user(db_users, id), <<>>)
    /\ UNCHANGED <<users, acct_objs, db_users, saves>>

\* BankingService.list_accounts(user)
ListAccounts(u) ==
    /\ uresult' = UResult("list_accounts", 0, u, users[u].accounts)
    /\ UNCHANGED <<users, acct_objs, db_users, saves>>

UserNext ==
    /\ UNCHANGED <<bank_vars, conc_vars>>
    /\ \/ \E id \in UserIds : NewUser(id)
       \/ \E id \in NewAccountIds, u \in 1 .. Len(users) : NewAccount(id, u)
       \/ \E u \in 1 .. Len(users) : SaveUser(u)
       \/ \E id \in UserIds : Login(id)
       \/ \E u \in 1 .. Len(users) : ListAccounts(u)

\* the balances take no part in these operations: start from the largest ones
InitUsers == Init /\ balance = [a \in Accounts |-> MaxInit]

SpecUsers == InitUsers /\ [][UserNext]_vars

\* ------------------------------------ transfer() calls in two threads
\* Each thread makes one transfer() call on the same BankingService; the
\* source has no lock, so the threads interleave line by line, and the
\* += of line 64 is a load followed by a store.  process() is taken as one
\* step.

\* transfer(), lines 61-62
CCall(th, s, d, a) ==
    /\ tpc[th] = "idle" /\ tresult[th].op = "none"
    /\ tframe' = [tframe EXCEPT ![th] = [NoTFrame EXCEPT !.source = get_account(s),
                                            !.dest = get_account(d), !.amount = a]]
    /\ tpc' = [tpc EXCEPT ![th] = "construct"]
    /\ UNCHANGED <<balance, history, txs, db_transactions, next_tx_id,
                   notifications, tresult>>

\* transfer(), line 63: reads self._next_tx_id
CConstruct(th) ==
    /\ tpc[th] = "construct"
    /\ txs' = Append(txs, Transaction(next_tx_id, tframe[th].source, tframe[th].dest,
                                      tframe[th].amount))
    /\ tframe' = [tframe EXCEPT ![th].tx = Len(txs) + 1]
    /\ tpc' = [tpc EXCEPT ![th] = "load"]
    /\ UNCHANGED <<balance, history, db_transactions, next_tx_id, notifications,
                   tresult>>

\* transfer(), line 64, first half: load self._next_tx_id
CLoad(th) ==
    /\ tpc[th] = "load"
    /\ tframe' = [tframe EXCEPT ![th].tmp = next_tx_id]
    /\ tpc' = [tpc EXCEPT ![th] = "store"]
    /\ UNCHANGED <<balance, history, txs, db_transactions, next_tx_id,
                   notifications, tresult>>

\* transfer(), line 64, second half: store the loaded value + 1
CStore(th) ==
    /\ tpc[th] = "store"
    /\ next_tx_id' = next_id(tframe[th].tmp)
    /\ tpc' = [tpc EXCEPT ![th] = "process"]
    /\ UNCHANGED <<balance, history, txs, db_transactions, notifications,
                   tframe, tresult>>

\* transfer(), line 65
CProcess(th) ==
    /\ tpc[th] = "process"
    /\ LET t == tframe[th].tx
           out == process(txs[t], t, balance, history)
       IN /\ balance' = out.balance
          /\ history' = out.history
          /\ txs' = [txs EXCEPT ![t].status = out.status]
          /\ IF out.ret = "raise"
             THEN /\ tpc' = [tpc EXCEPT ![th] = "idle"]
                  /\ tresult' = [tresult EXCEPT ![th] = Result("transfer", "raised", 0)]
                  /\ UNCHANGED tframe
             ELSE /\ tpc' = [tpc EXCEPT ![th] = "save"]
                  /\ tframe' = [tframe EXCEPT ![th].success = (out.ret = "True")]
                  /\ UNCHANGED tresult
    /\ UNCHANGED <<db_transactions, next_tx_id, notifications>>

\* transfer(), line 66
CSave(th) ==
    /\ tpc[th] = "save"
    /\ db_transactions' = save_transaction(db_transactions, txs[tframe[th].tx].tx_id,
                                           tframe[th].tx)
    /\ tpc' = [tpc EXCEPT ![th] = "notify"]
    /\ UNCHANGED <<balance, history, txs, next_tx_id, notifications, tframe, tresult>>

\* transfer(), lines 67-68 and 70-71
CNotify(th) ==
    /\ tpc[th] = "notify"
    /\ IF tframe[th].success
       THEN /\ notifications' = notify(notifications, owner[tframe[th].source],
                                       "succeeded", tframe[th].tx)
            /\ tpc' = [tpc EXCEPT ![th] = "notify2"]
            /\ UNCHANGED tresult
       ELSE IF tframe[th].source = None
       THEN /\ tpc' = [tpc EXCEPT ![th] = "idle"]
            /\ tresult' = [tresult EXCEPT ![th] = Result("transfer", "raised", 0)]
            /\ UNCHANGED notifications
       ELSE /\ notifications' = notify(notifications, owner[tframe[th].source],
                                       "failed", tframe[th].tx)
            /\ tpc' = [tpc EXCEPT ![th] = "return"]
            /\ UNCHANGED tresult
    /\ UNCHANGED <<balance, history, txs, db_transactions, next_tx_id, tframe>>

\* transfer(), line 69
CNotify2(th) ==
    /\ tpc[th] = "notify2"
    /\ notifications' = notify(notifications, owner[tframe[th].dest], "received",
                               tframe[th].tx)
    /\ tpc' = [tpc EXCEPT ![th] = "return"]
    /\ UNCHANGED <<balance, history, txs, db_transactions, next_tx_id, tframe, tresult>>

\* transfer(), line 72
CReturn(th) ==
    /\ tpc[th] = "return"
    /\ tresult' = [tresult EXCEPT ![th] = Result("transfer", "returned", tframe[th].tx)]
    /\ tpc' = [tpc EXCEPT ![th] = "idle"]
    /\ UNCHANGED <<balance, history, txs, db_transactions, next_tx_id,
                   notifications, tframe>>

ConcNext ==
    /\ UNCHANGED <<user_vars, pc, frame, result, nproc>>
    /\ \E th \in Threads :
          \/ \E s \in AccountIds, d \in AccountIds, a \in Amounts : CCall(th, s, d, a)
          \/ CConstruct(th)
          \/ CLoad(th)
          \/ CStore(th)
          \/ CProcess(th)
          \/ CSave(th)
          \/ CNotify(th)
          \/ CNotify2(th)
          \/ CReturn(th)

SpecConc == Init /\ [][ConcNext]_vars

TypeOK ==
    /\ balance \in [Accounts -> Int]
    /\ pc \in {"idle", "construct", "inc", "process", "save", "notify", "notify2", "return"}
    /\ next_tx_id \in 1 .. (MaxTx + 1)

\* ------------------------------------------------------------ properties
Objects == 1 .. Len(txs)

\* A step in which process() ran on Transaction object t: line 65 of the
\* running transfer(), or a direct call by the caller.
ProcessStepOn(t) ==
    \/ pc = "process" /\ frame.tx = t
    \/ pc = "idle" /\ nproc' = nproc + 1 /\ result'.tx = t

Saved(t) == \E k \in DOMAIN db_transactions : db_transactions[k] = t

\* the notifications about Transaction object t, in the order sent
Notes(t) == SelectSeq(notifications, LAMBDA n : n.tx = t)

Returned == result.op = "transfer" /\ result.kind = "returned"

\* C1: every process() call that ends with status FAILED leaves every
\* balance exactly as it was when process() was called.
C1_FailedLeavesBalances ==
    [][\A t \in Objects :
         (ProcessStepOn(t) /\ txs'[t].status = STATUS_FAILED) => balance' = balance]_vars

\* C2: a process() call on a Transaction whose status is already COMPLETED
\* or FAILED does not apply the balance mutation again, so no transaction
\* debits its source or credits its destination more than once.
C2_NoReapply ==
    [][\A t \in Objects :
         (ProcessStepOn(t) /\ txs[t].status \in Terminal) => balance' = balance]_vars

\* C3: the balance of every account is never negative.
C3_BalanceNonNegative == \A a \in Accounts : balance[a] >= 0

\* C3 witness: one transfer drained its source to exactly 0 and a later
\* transfer asking for more than the source holds was declined.
C3_Witness ==
    \E t \in Objects, u \in Objects :
        /\ txs[t].status = STATUS_COMPLETED /\ balance[txs[t].source] = 0
        /\ txs[u].status = STATUS_FAILED /\ txs[u].source # None
        /\ txs[u].amount > balance[txs[u].source]

\* C4 as stated: a process() call that ends COMPLETED lowers the source
\* balance by amount and raises the destination balance by amount, for every
\* pair of accounts, the same account twice included.
C4_Original ==
    [][\A t \in Objects :
         (ProcessStepOn(t) /\ txs'[t].status = STATUS_COMPLETED) =>
             LET s == txs[t].source
                 d == txs[t].destination
                 a == txs[t].amount
             IN /\ balance'[s] = balance[s] - a
                /\ balance'[d] = balance[d] + a
                /\ balance'[s] + balance'[d] = balance[s] + balance[d]]_vars

\* C4 amended: a process() call that ends COMPLETED lowers the source by
\* amount and raises the destination by amount when they are different
\* accounts, leaves the balance unchanged when they are the same account,
\* touches no other account, and keeps the sum of the two balances.
C4_Conservation ==
    [][\A t \in Objects :
         (ProcessStepOn(t) /\ txs'[t].status = STATUS_COMPLETED) =>
             LET s == txs[t].source
                 d == txs[t].destination
                 a == txs[t].amount
             IN /\ s # None /\ d # None /\ a > 0
                /\ IF s = d
                   THEN balance' = balance
                   ELSE balance' = [balance EXCEPT ![s] = @ - a, ![d] = @ + a]
                /\ balance'[s] + balance'[d] = balance[s] + balance[d]]_vars

\* C4 witness: one completed transfer between different accounts and one
\* completed transfer from an account to itself.
C4_Witness ==
    \E t \in Objects, u \in Objects :
        /\ txs[t].status = STATUS_COMPLETED /\ txs[t].source # txs[t].destination
        /\ txs[u].status = STATUS_COMPLETED /\ txs[u].source = txs[u].destination

\* C5: a Transaction is created PENDING and, once its status is COMPLETED
\* or FAILED, no step changes the status again.
C5_OneWayStatus ==
    [][/\ Len(txs') > Len(txs) => txs'[Len(txs')].status = STATUS_PENDING
       /\ \A t \in Objects :
            txs[t].status \in Terminal => txs'[t].status = txs[t].status]_vars

\* C6: while a transfer() call holds an unresolved source or destination, no
\* step of it changes a balance or the stored transactions, and the call
\* ends by raising an error.
C6_UnknownIdRejected ==
    [][(pc # "idle" /\ (frame.source = None \/ frame.dest = None)) =>
          /\ balance' = balance
          /\ db_transactions' = db_transactions
          /\ pc' = "idle" => result'.kind = "raised"]_vars

\* C7: the first Transaction built has id 1 and every Transaction built
\* later has a greater id than every one built before it.
C7_IdsIncreasing ==
    \A i \in Objects :
        /\ i = 1 => txs[i].tx_id = 1
        /\ \A j \in Objects : i < j => txs[i].tx_id < txs[j].tx_id

\* C7 witness: two transactions exist, the first completed and the second
\* built by a call that raised.
C7_Witness ==
    /\ Len(txs) = 2 /\ pc = "idle"
    /\ txs[1].status = STATUS_COMPLETED
    /\ result.op = "transfer" /\ result.kind = "raised"

\* C8: a transfer() call whose two ids resolve never raises; process() sets
\* COMPLETED or FAILED; an amount <= 0 or above the source balance gives
\* FAILED; a FAILED outcome changes no balance; the call returns its
\* Transaction with that terminal status.
C8_ResolvedNeverRaises ==
    [][(pc # "idle" /\ frame.source # None /\ frame.dest # None) =>
          /\ pc = "process" =>
                /\ txs'[frame.tx].status \in Terminal
                /\ (frame.amount <= 0 \/ frame.amount > balance[frame.source])
                       => txs'[frame.tx].status = STATUS_FAILED
                /\ txs'[frame.tx].status = STATUS_FAILED => balance' = balance
          /\ pc # "process" => balance' = balance
          /\ pc' = "idle" =>
                /\ result' = Result("transfer", "returned", frame.tx)
                /\ txs'[frame.tx].status \in Terminal]_vars

\* C8 witness: transfer() returned a FAILED Transaction for an amount <= 0
\* between two resolved accounts.
C8_Witness ==
    /\ Returned
    /\ txs[result.tx].status = STATUS_FAILED /\ txs[result.tx].amount <= 0
    /\ txs[result.tx].source # None /\ txs[result.tx].destination # None

\* C9: the Transaction transfer() returned is stored under its tx_id; every
\* stored Transaction already has a terminal status; every notification is
\* about a Transaction that is already stored.
C9_SavedBeforeNotify ==
    /\ Returned =>
          /\ txs[result.tx].tx_id \in DOMAIN db_transactions
          /\ db_transactions[txs[result.tx].tx_id] = result.tx
          /\ txs[result.tx].status \in Terminal
    /\ \A k \in DOMAIN db_transactions : txs[db_transactions[k]].status \in Terminal
    /\ pc \in {"notify", "notify2", "return"} => Saved(frame.tx)
    /\ \A i \in 1 .. Len(notifications) : Saved(notifications[i].tx)

\* C9 witness: transfer() returned a FAILED Transaction, which is stored and
\* whose source owner has been notified.
C9_Witness ==
    /\ Returned
    /\ txs[result.tx].status = STATUS_FAILED
    /\ Saved(result.tx) /\ Len(Notes(result.tx)) = 1

\* C10: a transfer that returned COMPLETED sent exactly two notifications,
\* to the source owner and then to the destination owner; one that returned
\* FAILED sent exactly one, to the source owner; a PENDING Transaction has
\* none; and no Transaction ever has other notifications than these.
C10_NotificationsFollowOutcome ==
    /\ \A t \in Objects : txs[t].status = STATUS_PENDING => Notes(t) = <<>>
    /\ Returned =>
          LET t == result.tx
              tx == txs[t]
          IN /\ tx.status = STATUS_COMPLETED =>
                   Notes(t) = << [to |-> owner[tx.source], msg |-> "succeeded", tx |-> t],
                                 [to |-> owner[tx.destination], msg |-> "received", tx |-> t] >>
             /\ tx.status = STATUS_FAILED =>
                   Notes(t) = << [to |-> owner[tx.source], msg |-> "failed", tx |-> t] >>
    /\ \A t \in Objects :
          Notes(t) # <<>> =>
             /\ txs[t].source # None
             /\ \/ Notes(t) = << [to |-> owner[txs[t].source], msg |-> "failed", tx |-> t] >>
                \/ /\ Notes(t) = << [to |-> owner[txs[t].source], msg |-> "succeeded", tx |-> t] >>
                   /\ pc = "notify2" /\ frame.tx = t
                \/ /\ txs[t].destination # None
                   /\ Notes(t) = << [to |-> owner[txs[t].source], msg |-> "succeeded", tx |-> t],
                                    [to |-> owner[txs[t].destination], msg |-> "received", tx |-> t] >>

\* C10 witness: a completed transfer between accounts of different owners
\* and a failed one have both returned.
C10_Witness ==
    /\ Returned
    /\ \E t \in Objects, u \in Objects :
          /\ Len(Notes(t)) = 2 /\ Notes(t)[1].to # Notes(t)[2].to
          /\ Len(Notes(u)) = 1 /\ txs[u].status = STATUS_FAILED
\* the sum of the balances of all saved accounts
Total(bal) == bal[101] + bal[201]

\* s is a prefix of q
IsPrefix(s, q) == Len(s) <= Len(q) /\ SubSeq(q, 1, Len(s)) = s

\* C11: a validate() call changes no balance, status or history; it answers
\* true exactly when amount > 0 and the source balance is at least amount
\* (with a source it answers true or false, never an error); and a call
\* right after another on the same Transaction gives the same answer.
C11_ValidatePure ==
    [][\A t \in Objects :
         (pc = "idle" /\ pc' = "idle" /\ result'.op = "validate" /\ result'.tx = t) =>
            /\ balance' = balance /\ txs' = txs /\ history' = history
            /\ (result'.kind = "True") <=>
                  (/\ txs[t].amount > 0
                   /\ txs[t].source # None
                   /\ balance[txs[t].source] >= txs[t].amount)
            /\ txs[t].source # None => result'.kind \in {"True", "False"}
            /\ (result.op = "validate" /\ result.tx = t) => result'.kind = result.kind]_vars

\* C11 witness: validate() answered true for a Transaction whose amount is
\* exactly the source balance.
C11_Witness ==
    /\ result.op = "validate" /\ result.kind = "True"
    /\ txs[result.tx].amount = balance[txs[result.tx].source]

\* C12: deposit(amount) with amount <= 0 and withdraw(amount) with
\* amount <= 0 or amount > balance raise and leave every balance unchanged;
\* any other call changes only that account's balance, by +amount or
\* -amount, so withdrawing the whole balance succeeds and leaves 0.
C12_RejectBeforeMutate ==
    [][/\ (pc = "idle" /\ pc' = "idle" /\ result'.op = "deposit") =>
            \A acc \in Accounts, a \in Amounts :
               Deposit(acc, a) =>
                  IF a <= 0
                  THEN result'.kind = "raised" /\ balance' = balance
                  ELSE /\ result'.kind = "ok"
                       /\ balance' = [balance EXCEPT ![acc] = @ + a]
       /\ (pc = "idle" /\ pc' = "idle" /\ result'.op = "withdraw") =>
            \A acc \in Accounts, a \in Amounts :
               Withdraw(acc, a) =>
                  IF a <= 0 \/ a > balance[acc]
                  THEN result'.kind = "raised" /\ balance' = balance
                  ELSE /\ result'.kind = "ok"
                       /\ balance' = [balance EXCEPT ![acc] = @ - a]
                       /\ a = balance[acc] => balance'[acc] = 0]_vars

\* C12 witness: a withdrawal of a whole balance has just succeeded and left 0.
C12_Witness ==
    /\ result.op = "withdraw" /\ result.kind = "ok"
    /\ \E acc \in Accounts : balance[acc] = 0

\* C15: every step only appends to account histories; an entry is appended
\* to an account only by a process() call on that Transaction that ends
\* COMPLETED with the account as source or destination; a process() call
\* that ends FAILED appends nothing.
C15_HistoryAppendOnly ==
    [][/\ \A a \in Accounts : IsPrefix(history[a], history'[a])
       /\ \A a \in Accounts :
            \A i \in (Len(history[a]) + 1) .. Len(history'[a]) :
               LET t == history'[a][i]
               IN /\ t \in Objects
                  /\ ProcessStepOn(t)
                  /\ txs'[t].status = STATUS_COMPLETED
                  /\ a \in {txs[t].source, txs[t].destination}
       /\ \A t \in Objects :
            (ProcessStepOn(t) /\ txs'[t].status = STATUS_FAILED) => history' = history]_vars

\* C15 witness: an account's history holds the two entries of a completed
\* transfer and a failed transfer is in no history.
C15_Witness ==
    /\ \E a \in Accounts : Len(history[a]) >= 2
    /\ \E t \in Objects :
          /\ txs[t].status = STATUS_FAILED
          /\ \A a \in Accounts : \A i \in 1 .. Len(history[a]) : history[a][i] # t

\* C16: no step of a transfer() call whose two account ids resolve changes
\* the sum of the balances of all accounts.
C16_TotalConserved ==
    [][(pc # "idle" /\ frame.source # None /\ frame.dest # None) =>
          Total(balance') = Total(balance)]_vars

\* C16 witness: a completed transfer between two different accounts and a
\* completed transfer from an account to itself have returned.
C16_Witness ==
    /\ Returned
    /\ \E t \in Objects, u \in Objects :
          /\ Saved(t) /\ txs[t].status = STATUS_COMPLETED
          /\ txs[t].source # txs[t].destination
          /\ Saved(u) /\ txs[u].status = STATUS_COMPLETED
          /\ txs[u].source = txs[u].destination

\* C17: every stored Transaction has a terminal status, is stored under its
\* own tx_id, and that id is below the next id; no step replaces or removes
\* a stored Transaction.
C17_StoreConsistent ==
    [][/\ \A k \in DOMAIN db_transactions' :
            /\ txs'[db_transactions'[k]].status \in Terminal
            /\ txs'[db_transactions'[k]].tx_id = k
            /\ k < next_tx_id'
       /\ \A k \in DOMAIN db_transactions :
            /\ k \in DOMAIN db_transactions'
            /\ db_transactions'[k] = db_transactions[k]]_vars

\* C17 witness: two transactions are stored, under ids 1 and 2.
C17_Witness ==
    /\ DOMAIN db_transactions = {1, 2}
    /\ db_transactions[1] # db_transactions[2]
    /\ pc = "idle"
RECURSIVE LastSaved(_, _)
\* the User object passed to the latest save_user call for user_id id, or
\* None when there was none
LastSaved(log, id) ==
    IF log = <<>> THEN None
    ELSE IF users[log[Len(log)]].user_id = id THEN log[Len(log)]
    ELSE LastSaved(SubSeq(log, 1, Len(log) - 1), id)

\* the number of positions of list holding a
Count(list, a) == Cardinality({i \in 1 .. Len(list) : list[i] = a})

\* C13: login(id) returns the User object most recently passed to
\* save_user with that user_id, or None when no such call was made, and the
\* call changes no user, account, transaction or store entry.
C13_LoginIsLookup ==
    [][(uresult'.op = "login" /\ uresult' # uresult) =>
          /\ uresult'.user = LastSaved(saves, uresult'.arg)
          /\ UNCHANGED <<users, acct_objs, db_users, saves, bank_vars>>]_vars

\* C13 witness: login returned a User object saved over an earlier one with
\* the same id, and the id 3 has still never been saved.
C13_Witness ==
    /\ uresult.op = "login" /\ uresult.user = 3
    /\ users[3].user_id \in {1, 2}
    /\ 3 \notin DOMAIN db_users

\* C14: every Account object is exactly once in the account list of its
\* owner and in no other list; every list is in creation order; no step
\* changes the owner of an Account or takes an entry from a list; and
\* list_accounts(user) returns exactly the list of that user.
C14_OneOwner ==
    [][/\ \A a \in 1 .. Len(acct_objs') :
            \A u \in 1 .. Len(users') :
               Count(users'[u].accounts, a) = IF acct_objs'[a].owner = u THEN 1 ELSE 0
       /\ \A u \in 1 .. Len(users') :
            \A i \in 1 .. Len(users'[u].accounts), j \in 1 .. Len(users'[u].accounts) :
               i < j => users'[u].accounts[i] < users'[u].accounts[j]
       /\ \A a \in 1 .. Len(acct_objs) : acct_objs'[a] = acct_objs[a]
       /\ \A u \in 1 .. Len(users) : IsPrefix(users[u].accounts, users'[u].accounts)
       /\ uresult'.op = "list_accounts" => uresult'.list = users'[uresult'.user].accounts]_vars

\* C14 witness: list_accounts returned a list of two accounts of one user
\* while another user owns an account too.
C14_Witness ==
    /\ uresult.op = "list_accounts" /\ Len(uresult.list) = 2
    /\ \E u \in 1 .. Len(users) : u # uresult.user /\ Len(users[u].accounts) >= 1
\* C18: with two transfer() calls interleaving in two threads, the
\* Transactions built have different tx_ids and every Transaction a call
\* returned is still the one stored under its tx_id.
C18_ConcurrentIdsDistinct ==
    /\ \A i \in Objects, j \in Objects : i # j => txs[i].tx_id # txs[j].tx_id
    /\ \A th \in Threads :
          tresult[th].kind = "returned" =>
             /\ txs[tresult[th].tx].tx_id \in DOMAIN db_transactions
             /\ db_transactions[txs[tresult[th].tx].tx_id] = tresult[th].tx
====
